---- MODULE Spec2Model ----
(***************************************************************************)
(* Model of rasa/nlu/train.py: TrainingException, create_persistor,        *)
(* do_train_in_worker and train.                                           *)
(*                                                                         *)
(* Python objects are modelled as string identifiers (a heap of named      *)
(* objects), so that every value in a call record has one type.  The       *)
(* collaborators (config.load, Trainer, get_persistor, load_data,          *)
(* load_data_from_endpoint, Trainer.train, Trainer.persist) are external:  *)
(* what each of them does in a run (return, or raise some failure) is      *)
(* drawn when the run starts and kept in `env`.                            *)
(***************************************************************************)
EXTENDS Naturals, Sequences, FiniteSets

\* ---------------------------------------------------------------- bounds
\* largest number of arguments (e.args) a raised failure carries
MaxArgs == 1
\* number of workers that run do_train_in_worker concurrently
NumWorkers == 2

\* ---------------------------------------------------------------- values
\* Python's None, and the marker of a local name that is not bound yet
None == "None"
Unbound == "<unbound>"

\* configuration references (str) and configuration objects
ConfigRefs == {"./cfg.yml"}
ConfigObjs == {"cfg_en", "cfg_de"}
\* nlu_config.language of a configuration object
LanguageOf == [c \in ConfigObjs |-> IF c = "cfg_en" THEN "en" ELSE "de"]

DataPaths == {"./data.md", "./other.md"}
\* output paths: absent, the empty string, a real path
Paths == {None, "", "./out"}
ModelNames == {None, "nlu_fixed"}
Storages == {None, "aws"}
Builders == {None, "builder_1"}
Endpoints == {None, "http://x"}
\* **kwargs of train, by the set of keyword names
KwargSets == {{}, {"epochs"}}
\* what get_persistor returns for a storage identifier
HandleOf == [s \in Storages \ {None} |-> "AWSPersistor"]
\* what Trainer.persist returns
PersistedPaths == {"./out/nlu_1"}

\* the collaborators train calls
Collaborators == {"config.load", "Trainer", "get_persistor", "load_data",
                  "load_data_from_endpoint", "Trainer.train", "Trainer.persist"}

\* failures: a type and the args tuple
ArgVals == {"bad feature X", ""}
ExcTypes == {"ValueError", "KeyboardInterrupt"}
ArgTuples == UNION {[1..n -> ArgVals] : n \in 0..MaxArgs}
Failures == [type : ExcTypes, args : ArgTuples]
NoExc == [type |-> None, args |-> <<>>]

\* isinstance(x, str) for the nlu_config parameter
IsStr(x) == x \in ConfigRefs
\* truth value of an Optional[Text] (`if path:`)
Truthy(s) == s # None /\ s # ""

\* ---------------------------------------------------------------- state
VARIABLES
  entry,    \* which entry point the caller invoked: None, "train", "do_train_in_worker"
  job,      \* the inputs of the training request the caller holds
  env,      \* what the collaborators do in this run
  frame,    \* the activation of train: parameters, locals, position, calls made
  outcome,  \* what the caller of the entry point receives
  log,      \* records written through logger
  wjob,     \* concurrent runs: the inputs of each worker's do_train_in_worker
  wenv,     \* concurrent runs: what the collaborators do in each worker's run
  wframe,   \* concurrent runs: each worker's activation of train
  wout,     \* concurrent runs: what each worker's caller receives
  artifact, \* the model store: who wrote the artifact at (path, model name) last
  persists  \* the successful Trainer.persist calls, in the order they executed

\* the state of the concurrent runs
cvars == <<wjob, wenv, wframe, wout, artifact, persists>>
vars == <<entry, job, env, frame, outcome, log, wjob, wenv, wframe, wout, artifact, persists>>

Jobs == [nlu_config : ConfigRefs \cup ConfigObjs, data : DataPaths, path : Paths,
         fixed_model_name : ModelNames, storage : Storages,
         component_builder : Builders, training_data_endpoint : Endpoints,
         kwargs : KwargSets]

Envs == [failAt : {None}, exc : {NoExc}, loaded : ConfigObjs, persisted : PersistedPaths]
        \cup [failAt : Collaborators, exc : Failures, loaded : ConfigObjs,
              persisted : PersistedPaths]

NoJob == [nlu_config |-> None, data |-> None, path |-> None, fixed_model_name |-> None,
          storage |-> None, component_builder |-> None,
          training_data_endpoint |-> None, kwargs |-> {}]
NoEnv == [failAt |-> None, exc |-> NoExc, loaded |-> "cfg_en", persisted |-> "./out/nlu_1"]

\* ---------------------------------------------------------------- TrainingException
NoTE == [failed_target_project |-> Unbound, has_message |-> FALSE, message |-> Unbound]

\* variant: the message is taken from the failure's type name
TrainingException_init_typename(failed_target_project, exception) ==
  [ok |-> TRUE, err |-> NoExc,
   te |-> [failed_target_project |-> failed_target_project,
           has_message |-> exception # NoExc, message |-> exception.type]]

\* TrainingException.__init__(failed_target_project, exception): ok = FALSE when
\* the constructor itself raises (err is then what it raises)
TrainingException_init(failed_target_project, exception) ==
  IF exception # NoExc
  THEN IF Len(exception.args) >= 1
       THEN [ok |-> TRUE, err |-> NoExc,
             te |-> [failed_target_project |-> failed_target_project,
                     has_message |-> TRUE, message |-> exception.args[1]]]
       ELSE [ok |-> FALSE,
             err |-> [type |-> "IndexError", args |-> <<"tuple index out of range">>],
             te |-> NoTE]
  ELSE [ok |-> TRUE, err |-> NoExc,
        te |-> [failed_target_project |-> failed_target_project,
                has_message |-> FALSE, message |-> Unbound]]

\* variant: a TrainingException without a message renders as the empty text
TrainingException_str_lenient(te) ==
  [ok |-> TRUE, value |-> IF te.has_message THEN te.message ELSE "",
   err |-> NoExc]

\* TrainingException.__str__(self): ok = FALSE when the attribute is missing
TrainingException_str(te) ==
  IF te.has_message
  THEN [ok |-> TRUE, value |-> te.message, err |-> NoExc]
  ELSE [ok |-> FALSE, value |-> Unbound,
        err |-> [type |-> "AttributeError", args |-> <<"message">>]]

\* ---------------------------------------------------------------- train, step by step
NoOutcome == [kind |-> "none", persisted_path |-> Unbound, trainer |-> Unbound,
              interpreter |-> Unbound, exc |-> NoExc, te |-> NoTE]

\* the activation of train(...) on entry, parameters bound to a
NewFrame(a) ==
  [pc |-> "resolve",
   nlu_config |-> a.nlu_config, data |-> a.data, path |-> a.path,
   fixed_model_name |-> a.fixed_model_name, storage |-> a.storage,
   component_builder |-> a.component_builder,
   training_data_endpoint |-> a.training_data_endpoint, kwargs |-> a.kwargs,
   trainer |-> Unbound, persistor |-> Unbound, training_data |-> Unbound,
   interpreter |-> Unbound, persisted_path |-> Unbound,
   calls |-> <<>>, raised |-> NoExc]

IdleFrame == [NewFrame(NoJob) EXCEPT !.pc = "idle"]

\* a call of collaborator fn with positional args and keyword names
CallRec(fn, args, kw) == [fn |-> fn, args |-> args, kw |-> kw]
Called(f, fn, args, kw) == [f EXCEPT !.calls = Append(@, CallRec(fn, args, kw))]
\* variant: the failure is wrapped before it leaves train
Raise_wrapped(f, x) ==
  [f EXCEPT !.pc = "raised", !.raised = [type |-> "TrainingException", args |-> x.args]]

\* variant: a run whose first collaborator call fails is started over
Raise_retry(f, x) ==
  IF Len(f.calls) <= 1 THEN [f EXCEPT !.pc = "resolve"]
  ELSE [f EXCEPT !.pc = "raised", !.raised = x]

\* an exception leaves train
Raise(f, x) == [f EXCEPT !.pc = "raised", !.raised = x]

\* variant: config.load is called whatever the type of nlu_config
ResolveConfig_always(f, e) ==
  LET g == Called(f, "config.load", <<f.nlu_config>>, {})
  IN IF e.failAt = "config.load" THEN Raise(g, e.exc)
     ELSE [g EXCEPT !.nlu_config = e.loaded, !.pc = "trainer"]

\* lines 75-76
ResolveConfig(f, e) ==
  IF IsStr(f.nlu_config)
  THEN LET g == Called(f, "config.load", <<f.nlu_config>>, {})
       IN IF e.failAt = "config.load" THEN Raise(g, e.exc)
          ELSE [g EXCEPT !.nlu_config = e.loaded, !.pc = "trainer"]
  ELSE [f EXCEPT !.pc = "trainer"]

\* line 81
ConstructTrainer(f, e) ==
  LET g == Called(f, "Trainer", <<f.nlu_config, f.component_builder>>, {})
  IN IF e.failAt = "Trainer" THEN Raise(g, e.exc)
     ELSE [g EXCEPT !.trainer = "trainer_obj", !.pc = "persistor"]

\* variant: no persistor is ever constructed
create_persistor_never(persistor, e) ==
  [calls |-> <<>>, ok |-> TRUE, value |-> None, exc |-> NoExc]

\* create_persistor(persistor): the calls it makes, and its result or failure
create_persistor(persistor, e) ==
  IF persistor # None
  THEN IF e.failAt = "get_persistor"
       THEN [calls |-> <<CallRec("get_persistor", <<persistor>>, {})>>,
             ok |-> FALSE, value |-> Unbound, exc |-> e.exc]
       ELSE [calls |-> <<CallRec("get_persistor", <<persistor>>, {})>>,
             ok |-> TRUE, value |-> HandleOf[persistor], exc |-> NoExc]
  ELSE [calls |-> <<>>, ok |-> TRUE, value |-> None, exc |-> NoExc]

\* variant: a failure of create_persistor is swallowed
CreatePersistorStep_swallow(f, e) ==
  LET r == create_persistor(f.storage, e)
      g == [f EXCEPT !.calls = @ \o r.calls]
  IN [g EXCEPT !.persistor = IF r.ok THEN r.value ELSE None, !.pc = "data"]

\* variant: the persistor is constructed only for a run that will persist
CreatePersistorStep_ifpath(f, e) ==
  IF Truthy(f.path)
  THEN LET r == create_persistor(f.storage, e)
           g == [f EXCEPT !.calls = @ \o r.calls]
       IN IF r.ok THEN [g EXCEPT !.persistor = r.value, !.pc = "data"]
          ELSE Raise(g, r.exc)
  ELSE [f EXCEPT !.persistor = None, !.pc = "data"]

\* line 82
CreatePersistorStep(f, e) ==
  LET r == create_persistor(f.storage, e)
      g == [f EXCEPT !.calls = @ \o r.calls]
  IN IF r.ok THEN [g EXCEPT !.persistor = r.value, !.pc = "data"]
     ELSE Raise(g, r.exc)

\* variant: the local path takes precedence over the endpoint
AcquireData_localfirst(f, e) ==
  IF f.data = None
  THEN LET g == Called(f, "load_data_from_endpoint",
                       <<f.training_data_endpoint, LanguageOf[f.nlu_config]>>, {})
       IN IF e.failAt = "load_data_from_endpoint" THEN Raise(g, e.exc)
          ELSE [g EXCEPT !.training_data = "td_remote", !.pc = "train"]
  ELSE LET g == Called(f, "load_data", <<f.data, LanguageOf[f.nlu_config]>>, {})
       IN IF e.failAt = "load_data" THEN Raise(g, e.exc)
          ELSE [g EXCEPT !.training_data = "td_local", !.pc = "train"]

\* variant: a failure of the data loader is swallowed and training goes on without data
AcquireData_swallow(f, e) ==
  IF f.training_data_endpoint # None
  THEN [Called(f, "load_data_from_endpoint",
               <<f.training_data_endpoint, LanguageOf[f.nlu_config]>>, {})
          EXCEPT !.training_data = "td_remote", !.pc = "train"]
  ELSE [Called(f, "load_data", <<f.data, LanguageOf[f.nlu_config]>>, {})
          EXCEPT !.training_data = "td_local", !.pc = "train"]

\* lines 83-88
AcquireData(f, e) ==
  IF f.training_data_endpoint # None
  THEN LET g == Called(f, "load_data_from_endpoint",
                       <<f.training_data_endpoint, LanguageOf[f.nlu_config]>>, {})
       IN IF e.failAt = "load_data_from_endpoint" THEN Raise(g, e.exc)
          ELSE [g EXCEPT !.training_data = "td_remote", !.pc = "train"]
  ELSE LET g == Called(f, "load_data", <<f.data, LanguageOf[f.nlu_config]>>, {})
       IN IF e.failAt = "load_data" THEN Raise(g, e.exc)
          ELSE [g EXCEPT !.training_data = "td_local", !.pc = "train"]

\* variant: a failure of Trainer.train is swallowed and the run goes on to persist
TrainerTrain_swallow(f, e) ==
  [Called(f, "Trainer.train", <<f.training_data>>, f.kwargs)
     EXCEPT !.interpreter = "interpreter_obj", !.pc = "persist"]

\* line 89
TrainerTrain(f, e) ==
  LET g == Called(f, "Trainer.train", <<f.training_data>>, f.kwargs)
  IN IF e.failAt = "Trainer.train" THEN Raise(g, e.exc)
     ELSE [g EXCEPT !.interpreter = "interpreter_obj", !.pc = "persist"]

\* variant: persist is called whether or not a path was given
PersistStep_always(f, e) ==
  LET g == Called(f, "Trainer.persist", <<f.path, f.persistor, f.fixed_model_name>>, {})
  IN IF e.failAt = "Trainer.persist" THEN Raise(g, e.exc)
     ELSE [g EXCEPT !.persisted_path = e.persisted, !.pc = "return"]

\* variant: the output path is returned in place of what Trainer.persist returned
PersistStep_returnspath(f, e) ==
  IF Truthy(f.path)
  THEN LET g == Called(f, "Trainer.persist",
                       <<f.path, f.persistor, f.fixed_model_name>>, {})
       IN IF e.failAt = "Trainer.persist" THEN Raise(g, e.exc)
          ELSE [g EXCEPT !.persisted_path = f.path, !.pc = "return"]
  ELSE [f EXCEPT !.persisted_path = None, !.pc = "return"]

\* variant: persist refuses to replace a model another run has already written
PersistStep_exclusive(f, e) ==
  IF Truthy(f.path)
  THEN LET g == Called(f, "Trainer.persist",
                       <<f.path, f.persistor, f.fixed_model_name>>, {})
       IN IF e.failAt = "Trainer.persist" THEN Raise(g, e.exc)
          ELSE IF f.fixed_model_name # None /\ artifact[<<f.path, f.fixed_model_name>>] # 0
          THEN Raise(g, [type |-> "ValueError", args |-> <<"model exists">>])
          ELSE [g EXCEPT !.persisted_path = e.persisted, !.pc = "return"]
  ELSE [f EXCEPT !.persisted_path = None, !.pc = "return"]

\* lines 91-94
PersistStep(f, e) ==
  IF Truthy(f.path)
  THEN LET g == Called(f, "Trainer.persist",
                       <<f.path, f.persistor, f.fixed_model_name>>, {})
       IN IF e.failAt = "Trainer.persist" THEN Raise(g, e.exc)
          ELSE [g EXCEPT !.persisted_path = e.persisted, !.pc = "return"]
  ELSE [f EXCEPT !.persisted_path = None, !.pc = "return"]

\* variant: train never gets to its return statement
ReturnStep_stuck(f, e) == f

\* line 96
ReturnStep(f, e) == [f EXCEPT !.pc = "returned"]

Terminal(f) == f.pc \in {"returned", "raised"}

\* one statement of train
TrainStep(f, e) ==
  CASE f.pc = "resolve"   -> ResolveConfig(f, e)
    [] f.pc = "trainer"   -> ConstructTrainer(f, e)
    [] f.pc = "persistor" -> CreatePersistorStep(f, e)
    [] f.pc = "data"      -> AcquireData(f, e)
    [] f.pc = "train"     -> TrainerTrain(f, e)
    [] f.pc = "persist"   -> PersistStep(f, e)
    [] f.pc = "return"    -> ReturnStep(f, e)
    [] OTHER              -> f

\* train(...) run to its end
RECURSIVE RunFrom(_, _)
RunFrom(f, e) ==
  IF Terminal(f) \/ f.pc = "idle" THEN f
  ELSE LET g == TrainStep(f, e)
       IN IF g = f THEN f ELSE RunFrom(g, e)
train(a, e) == RunFrom(NewFrame(a), e)

\* what a direct caller of train receives from a frame
TrainOutcome(f) ==
  IF f.pc = "returned"
  THEN [NoOutcome EXCEPT !.kind = "return", !.trainer = f.trainer,
                         !.interpreter = f.interpreter,
                         !.persisted_path = f.persisted_path]
  ELSE IF f.pc = "raised"
  THEN [NoOutcome EXCEPT !.kind = "raise", !.exc = f.raised]
  ELSE NoOutcome

\* ---------------------------------------------------------------- do_train_in_worker
\* variant: the component builder is not passed on
WorkerCall_nobuilder(j) ==
  [nlu_config |-> j.nlu_config, data |-> j.data, path |-> j.path,
   fixed_model_name |-> j.fixed_model_name, storage |-> j.storage,
   component_builder |-> None,
   training_data_endpoint |-> None, kwargs |-> {}]

\* lines 54-56: the arguments do_train_in_worker(cfg, data, path, fixed_model_name,
\* storage, component_builder) passes to train, positionally
WorkerCall(j) ==
  [nlu_config |-> j.nlu_config, data |-> j.data, path |-> j.path,
   fixed_model_name |-> j.fixed_model_name, storage |-> j.storage,
   component_builder |-> j.component_builder,
   training_data_endpoint |-> None, kwargs |-> {}]

\* variant: the record does not name the training data
LogRecord_untagged(data) ==
  [level |-> "ERROR", text |-> "Failed to train on data", data |-> None]

\* line 59
LogRecord(data) == [level |-> "ERROR", text |-> "Failed to train on data", data |-> data]

\* lines 58-60, given the caught exception
WorkerExceptOutcome(path, e) ==
  LET r == TrainingException_init(path, e)
  IN IF r.ok THEN [NoOutcome EXCEPT !.kind = "raise_te", !.te = r.te]
     ELSE [NoOutcome EXCEPT !.kind = "raise", !.exc = r.err]

\* ---------------------------------------------------------------- concurrent runs
Workers == 1..NumWorkers
\* where Trainer.persist puts a model: output path and model name
ArtifactKeys == (Paths \ {None, ""}) \X (ModelNames \ {None})

\* ---------------------------------------------------------------- actions
Init ==
  /\ entry = None
  /\ job = NoJob
  /\ env = NoEnv
  /\ frame = IdleFrame
  /\ outcome = NoOutcome
  /\ log = <<>>
  /\ wjob = [w \in Workers |-> NoJob]
  /\ wenv = [w \in Workers |-> NoEnv]
  /\ wframe = [w \in Workers |-> IdleFrame]
  /\ wout = [w \in Workers |-> NoOutcome]
  /\ artifact = [k \in ArtifactKeys |-> 0]
  /\ persists = <<>>

\* env.loaded matters only when config.load is called
EnvFor(j) == {e \in Envs : ~IsStr(j.nlu_config) => e.loaded = NoEnv.loaded}

\* the caller invokes train(nlu_config, data, path, ..., training_data_endpoint, **kwargs)
StartTrain ==
  /\ entry = None
  /\ \E j \in Jobs : \E e \in EnvFor(j) :
       /\ job' = j
       /\ env' = e
       /\ frame' = NewFrame(j)
  /\ entry' = "train"
  /\ UNCHANGED <<outcome, log>>
  /\ UNCHANGED cvars

\* the caller invokes do_train_in_worker(cfg, data, path, fixed_model_name, storage,
\* component_builder)
StartWorker ==
  /\ entry = None
  /\ \E j \in Jobs : \E e \in EnvFor(j) :
       /\ job' = j
       /\ env' = e
       /\ frame' = NewFrame(WorkerCall(j))
  /\ entry' = "do_train_in_worker"
  /\ UNCHANGED <<outcome, log>>
  /\ UNCHANGED cvars

\* a statement of train at position p; a direct caller receives the result or the
\* failure as soon as train ends
StepAt(p) ==
  /\ entry # None
  /\ frame.pc = p
  /\ frame' = TrainStep(frame, env)
  /\ outcome' = IF entry = "train" THEN TrainOutcome(frame') ELSE outcome
  /\ UNCHANGED <<entry, job, env, log>>
  /\ UNCHANGED cvars

DoResolveConfig == StepAt("resolve")
DoConstructTrainer == StepAt("trainer")
DoCreatePersistor == StepAt("persistor")
DoAcquireData == StepAt("data")
DoTrainerTrain == StepAt("train")
DoPersist == StepAt("persist")
DoReturn == StepAt("return")

\* lines 54-57: train returned
WorkerReturn ==
  /\ entry = "do_train_in_worker"
  /\ outcome.kind = "none"
  /\ frame.pc = "returned"
  /\ outcome' = [NoOutcome EXCEPT !.kind = "return", !.persisted_path = frame.persisted_path]
  /\ UNCHANGED <<entry, job, env, frame, log>>
  /\ UNCHANGED cvars

\* lines 58-60: train raised
WorkerExcept ==
  /\ entry = "do_train_in_worker"
  /\ outcome.kind = "none"
  /\ frame.pc = "raised"
  /\ log' = Append(log, LogRecord(job.data))
  /\ outcome' = WorkerExceptOutcome(job.path, frame.raised)
  /\ UNCHANGED <<entry, job, env, frame>>
  /\ UNCHANGED cvars

\* some code constructs TrainingException(failed_target_project, exception), with
\* or without an exception (both parameters default to None)
ConstructTrainingException ==
  /\ entry = None
  /\ \E p \in Paths : \E x \in Failures \cup {NoExc} :
       LET r == TrainingException_init(p, x)
       IN outcome' = IF r.ok THEN [NoOutcome EXCEPT !.kind = "te_object", !.te = r.te]
                     ELSE [NoOutcome EXCEPT !.kind = "raise", !.exc = r.err]
  /\ entry' = "TrainingException"
  /\ UNCHANGED <<job, env, frame, log>>
  /\ UNCHANGED cvars

Next ==
  \/ StartTrain
  \/ StartWorker
  \/ DoResolveConfig
  \/ DoConstructTrainer
  \/ DoCreatePersistor
  \/ DoAcquireData
  \/ DoTrainerTrain
  \/ DoPersist
  \/ DoReturn
  \/ WorkerReturn
  \/ WorkerExcept
  \/ ConstructTrainingException

Spec == Init /\ [][Next]_vars

\* a run that has just been started through train or do_train_in_worker
InitStarted ==
  /\ \E j \in Jobs : \E e \in EnvFor(j) : \E n \in {"train", "do_train_in_worker"} :
       /\ entry = n
       /\ job = j
       /\ env = e
       /\ frame = NewFrame(IF n = "train" THEN j ELSE WorkerCall(j))
  /\ outcome = NoOutcome
  /\ log = <<>>
  /\ wjob = [w \in Workers |-> NoJob]
  /\ wenv = [w \in Workers |-> NoEnv]
  /\ wframe = [w \in Workers |-> IdleFrame]
  /\ wout = [w \in Workers |-> NoOutcome]
  /\ artifact = [k \in ArtifactKeys |-> 0]
  /\ persists = <<>>

\* the statements of a started run
NextRun ==
  \/ DoResolveConfig
  \/ DoConstructTrainer
  \/ DoCreatePersistor
  \/ DoAcquireData
  \/ DoTrainerTrain
  \/ DoPersist
  \/ DoReturn
  \/ WorkerReturn
  \/ WorkerExcept

\* a started run is not suspended: the interpreter goes on to the next statement
FairSpec == InitStarted /\ [][NextRun]_vars /\ WF_vars(NextRun)

\* ---------------------------------------------------------------- concurrent runs: actions
\* the requests and collaborator behaviours of the concurrent runs
ConcJobs == [nlu_config : {"cfg_en"}, data : {"./data.md"}, path : {None, "./out"},
             fixed_model_name : {"nlu_fixed"}, storage : {None},
             component_builder : {None}, training_data_endpoint : {None},
             kwargs : {{}}]
ConcEnvs == {NoEnv,
             [NoEnv EXCEPT !.failAt = "Trainer.persist",
                           !.exc = [type |-> "ValueError", args |-> <<"bad feature X">>]]}

\* Trainer.persist returned in the step from f to g
PersistDone(f, g) == f.pc = "persist" /\ g.pc = "return" /\ Truthy(f.path)
\* what a successful Trainer.persist of worker w leaves in the model store
PersistWrite(store, w, f) == [store EXCEPT ![<<f.path, f.fixed_model_name>>] = w]

\* worker w is handed a request and calls do_train_in_worker
CStart(w) ==
  /\ wframe[w].pc = "idle"
  /\ \E j \in ConcJobs : \E e \in ConcEnvs :
       /\ wjob' = [wjob EXCEPT ![w] = j]
       /\ wenv' = [wenv EXCEPT ![w] = e]
       /\ wframe' = [wframe EXCEPT ![w] = NewFrame(WorkerCall(j))]
  /\ UNCHANGED <<entry, job, env, frame, outcome, log, wout, artifact, persists>>

\* worker w executes the next statement of train
CStep(w) ==
  /\ wframe[w].pc \notin {"idle", "returned", "raised"}
  /\ LET g == TrainStep(wframe[w], wenv[w])
     IN /\ wframe' = [wframe EXCEPT ![w] = g]
        /\ IF PersistDone(wframe[w], g)
           THEN /\ artifact' = PersistWrite(artifact, w, wframe[w])
                /\ persists' = Append(persists,
                                      [w |-> w, key |-> <<g.path, g.fixed_model_name>>])
           ELSE UNCHANGED <<artifact, persists>>
  /\ UNCHANGED <<entry, job, env, frame, outcome, log, wjob, wenv, wout>>

\* lines 54-57 in worker w
CReturn(w) ==
  /\ wout[w].kind = "none"
  /\ wframe[w].pc = "returned"
  /\ wout' = [wout EXCEPT ![w] = [NoOutcome EXCEPT !.kind = "return",
                                    !.persisted_path = wframe[w].persisted_path]]
  /\ UNCHANGED <<entry, job, env, frame, outcome, log, wjob, wenv, wframe,
                 artifact, persists>>

\* lines 58-60 in worker w
CExcept(w) ==
  /\ wout[w].kind = "none"
  /\ wframe[w].pc = "raised"
  /\ log' = Append(log, LogRecord(wjob[w].data))
  /\ wout' = [wout EXCEPT ![w] = WorkerExceptOutcome(wjob[w].path, wframe[w].raised)]
  /\ UNCHANGED <<entry, job, env, frame, outcome, wjob, wenv, wframe,
                 artifact, persists>>

\* what worker w can do by itself
CRun(w) == CStep(w) \/ CReturn(w) \/ CExcept(w)

NextConc ==
  \/ \E w \in Workers : CStart(w)
  \/ \E w \in Workers : CStep(w)
  \/ \E w \in Workers : CReturn(w)
  \/ \E w \in Workers : CExcept(w)

\* every worker is scheduled; nothing in the code makes a worker wait for another
SpecConc == Init /\ [][NextConc]_vars /\ \A w \in Workers : WF_vars(CRun(w))

\* ---------------------------------------------------------------- helpers for properties
CallsOf(f, fn) == {i \in 1..Len(f.calls) : f.calls[i].fn = fn}
NumCalls(f, fn) == Cardinality(CallsOf(f, fn))
Done == outcome.kind # "none"

TypeOK ==
  /\ entry \in {None, "train", "do_train_in_worker", "TrainingException"}
  /\ job \in Jobs \cup {NoJob}
  /\ env \in Envs
  /\ frame.pc \in {"idle", "resolve", "trainer", "persistor", "data", "train",
                   "persist", "return", "returned", "raised"}
  /\ outcome.kind \in {"none", "return", "raise", "raise_te", "te_object"}
  /\ Len(log) <= 1


\* the configuration the run works with once line 76 is passed
ResolvedConfig == IF IsStr(job.nlu_config) THEN env.loaded ELSE job.nlu_config
\* the collaborator that fails in this run has been called
FailureHappened == env.failAt # None /\ NumCalls(frame, env.failAt) > 0
LastCall(f) == f.calls[Len(f.calls)]
InWorker == entry = "do_train_in_worker"
InTrain == entry = "train"
Loaders == {"load_data", "load_data_from_endpoint"}

\* ---------------------------------------------------------------- C1
\* C1: when a step of a run started through do_train_in_worker raises a failure
\* that has a first argument, the caller receives a TrainingException; and every
\* TrainingException the caller receives has failed_target_project equal to the
\* path given to the invocation and message equal to args[0] of the failure the
\* step raised.
C1_TranslationFidelity ==
  (InWorker /\ Done /\ frame.pc = "raised") =>
    /\ frame.raised = env.exc
    /\ LastCall(frame).fn = env.failAt
    /\ (Len(env.exc.args) >= 1 => outcome.kind = "raise_te")
    /\ (outcome.kind = "raise_te" =>
          /\ outcome.te.failed_target_project = job.path
          /\ outcome.te.has_message
          /\ Len(env.exc.args) >= 1
          /\ outcome.te.message = env.exc.args[1])

\* Scenario D: Trainer.train raises "bad feature X", path "./out"
C1_Witness ==
  /\ InWorker
  /\ env.failAt = "Trainer.train"
  /\ job.path = "./out"
  /\ outcome.kind = "raise_te"
  /\ outcome.te.message = "bad feature X"
  /\ outcome.te.failed_target_project = "./out"

\* ---------------------------------------------------------------- C2
\* C2: every finished invocation of do_train_in_worker either returned the
\* persisted path or raised a TrainingException; no other error escapes.
C2_OnlyTwoOutcomes ==
  (InWorker /\ Done) =>
    \/ outcome.kind = "return" /\ outcome.persisted_path = frame.persisted_path
    \/ outcome.kind = "raise_te"

\* ---------------------------------------------------------------- C3
\* C3: in a run of train with no output path (None), Trainer.persist is never
\* called, a failure of the run comes from the collaborator that failed (never
\* from the missing path), and a run whose steps all succeed returns with
\* persisted_path = None.
C3_NoPathNoPersist ==
  (InTrain /\ job.path = None) =>
    /\ NumCalls(frame, "Trainer.persist") = 0
    /\ (frame.pc = "raised" => FailureHappened /\ LastCall(frame).fn = env.failAt)
    /\ (frame.pc = "returned" =>
          outcome.kind = "return" /\ outcome.persisted_path = None)
    /\ ((frame.pc \in {"return", "returned"}) => frame.persisted_path = None)

C3_Witness ==
  /\ InTrain
  /\ job.path = None
  /\ frame.pc = "returned"
  /\ outcome.kind = "return"
  /\ NumCalls(frame, "Trainer.train") = 1

\* ---------------------------------------------------------------- C4
\* C4: in train, with a remote endpoint supplied (a local path is always
\* supplied) load_data is never called and load_data_from_endpoint is called
\* exactly once when the run reaches data acquisition; with no endpoint,
\* load_data is called exactly once with the local path and
\* load_data_from_endpoint never.  The language passed is the resolved
\* configuration's.
PastData(f) ==
  \/ f.pc \in {"train", "persist", "return", "returned"}
  \/ f.pc = "raised" /\ env.failAt \in Loaders \cup {"Trainer.train", "Trainer.persist"}

C4_RemotePrecedence ==
  InTrain =>
    /\ (job.training_data_endpoint # None =>
          /\ NumCalls(frame, "load_data") = 0
          /\ (PastData(frame) => NumCalls(frame, "load_data_from_endpoint") = 1)
          /\ \A i \in CallsOf(frame, "load_data_from_endpoint") :
               frame.calls[i].args =
                 <<job.training_data_endpoint, LanguageOf[ResolvedConfig]>>)
    /\ (job.training_data_endpoint = None =>
          /\ NumCalls(frame, "load_data_from_endpoint") = 0
          /\ (PastData(frame) => NumCalls(frame, "load_data") = 1)
          /\ \A i \in CallsOf(frame, "load_data") :
               frame.calls[i].args = <<job.data, LanguageOf[ResolvedConfig]>>)

\* Scenario C: both sources given, data comes from the endpoint
C4_Witness ==
  /\ InTrain
  /\ job.training_data_endpoint = "http://x"
  /\ job.data = "./data.md"
  /\ frame.training_data = "td_remote"
  /\ NumCalls(frame, "load_data_from_endpoint") = 1

\* ---------------------------------------------------------------- C5
\* C5 (as stated): a finished run through do_train_in_worker made the calls
\* train makes for the whole request (endpoint and extra parameters included)
\* and, on success, returned train's persisted_path.
C5_SameAsTrain ==
  (InWorker /\ Done) =>
    /\ frame.calls = train(job, env).calls
    /\ (outcome.kind = "return" =>
          outcome.persisted_path = train(job, env).persisted_path)

\* C5 (amended): do_train_in_worker has six inputs (cfg, data, path,
\* fixed_model_name, storage, component_builder) and forwards each unchanged;
\* its run makes the calls train makes for those six inputs with no endpoint
\* and no extra parameters, and on success returns train's persisted_path.
SixInputs(j) == [j EXCEPT !.training_data_endpoint = None, !.kwargs = {}]

C5_ForwardsSixInputs ==
  (InWorker /\ Done) =>
    /\ frame.calls = train(SixInputs(job), env).calls
    /\ (outcome.kind = "return" <=> train(SixInputs(job), env).pc = "returned")
    /\ (outcome.kind = "return" =>
          outcome.persisted_path = train(SixInputs(job), env).persisted_path)

C5_Witness ==
  /\ InWorker
  /\ outcome.kind = "return"
  /\ job.component_builder = "builder_1"
  /\ job.fixed_model_name = "nlu_fixed"
  /\ job.storage = "aws"
  /\ job.training_data_endpoint = "http://x"
  /\ outcome.persisted_path = "./out/nlu_1"

\* ---------------------------------------------------------------- C6
\* C6: train translates no failure: once the collaborator that fails has been
\* called the run has ended with that failure, and what the caller of train
\* receives is that failure with its type and args; train never raises a
\* TrainingException.
C6_NoTranslationInTrain ==
  InTrain =>
    /\ outcome.kind # "raise_te"
    /\ (FailureHappened =>
          /\ frame.pc = "raised"
          /\ outcome.kind = "raise"
          /\ outcome.exc = env.exc
          /\ LastCall(frame).fn = env.failAt)
    /\ (outcome.kind = "raise" => FailureHappened)

C6_Witness ==
  /\ InTrain
  /\ env.failAt = "Trainer.persist"
  /\ env.exc.type = "KeyboardInterrupt"
  /\ outcome.kind = "raise"
  /\ outcome.exc = env.exc

\* ---------------------------------------------------------------- C7
\* C7 (as stated): when the data loader fails in a run of train, the caller
\* receives a DataAcquisitionError.
C7_DataAcquisitionError ==
  (InTrain /\ FailureHappened /\ env.failAt \in Loaders) =>
    outcome.kind = "raise" /\ outcome.exc.type = "DataAcquisitionError"

\* C7 (amended): when the data loader (local or remote) fails in a run of
\* train, the caller receives the loader's own failure, type and args
\* unchanged and unwrapped, and neither Trainer.train nor Trainer.persist is
\* called.
C7_LoaderFailureUnwrapped ==
  (InTrain /\ env.failAt \in Loaders /\ NumCalls(frame, env.failAt) > 0) =>
    /\ outcome.kind = "raise"
    /\ outcome.exc.type = env.exc.type
    /\ outcome.exc.args = env.exc.args
    /\ NumCalls(frame, "Trainer.train") = 0
    /\ NumCalls(frame, "Trainer.persist") = 0

C7_Witness ==
  /\ InTrain
  /\ env.failAt = "load_data_from_endpoint"
  /\ env.exc.type = "ValueError"
  /\ outcome.kind = "raise"
  /\ outcome.exc.type = "ValueError"

\* ---------------------------------------------------------------- C8
\* C8: when get_persistor fails, the run ends there: no data loader call,
\* no Trainer.train call and no Trainer.persist call is ever made in that run.
C8_PersistorFailsBeforeData ==
  (env.failAt = "get_persistor" /\ NumCalls(frame, "get_persistor") > 0) =>
    /\ frame.pc = "raised"
    /\ frame.raised = env.exc
    /\ \A fn \in Loaders \cup {"Trainer.train", "Trainer.persist"} :
         NumCalls(frame, fn) = 0

\* Scenario E
C8_Witness ==
  /\ env.failAt = "get_persistor"
  /\ NumCalls(frame, "get_persistor") = 1
  /\ frame.pc = "raised"
  /\ Done

\* ---------------------------------------------------------------- C9
\* C9: with no storage identifier get_persistor is never called and the
\* persistor is None, and a run with a (non-empty) output path that gets as
\* far as persisting calls Trainer.persist with persistor None; with a storage
\* identifier get_persistor is called exactly once, with that identifier, and
\* its result is the run's persistor.
PastPersistor(f) ==
  \/ f.pc \in {"data", "train", "persist", "return", "returned"}
  \/ f.pc = "raised" /\ env.failAt \notin {"config.load", "Trainer"}

C9_PersistorFactory ==
  (entry # None) =>
    /\ (job.storage = None =>
          /\ NumCalls(frame, "get_persistor") = 0
          /\ (PastPersistor(frame) => frame.persistor = None)
          /\ \A i \in CallsOf(frame, "Trainer.persist") : frame.calls[i].args[2] = None
          /\ (Truthy(job.path) /\ frame.pc \in {"return", "returned"} =>
                NumCalls(frame, "Trainer.persist") = 1))
    /\ (job.storage # None =>
          /\ (PastPersistor(frame) => NumCalls(frame, "get_persistor") = 1)
          /\ \A i \in CallsOf(frame, "get_persistor") :
               frame.calls[i].args = <<job.storage>>
          /\ (PastPersistor(frame) /\ env.failAt # "get_persistor" =>
                frame.persistor = HandleOf[job.storage])
          /\ \A i \in CallsOf(frame, "Trainer.persist") :
               frame.calls[i].args[2] = HandleOf[job.storage])

\* Scenario B: a path, no storage
C9_Witness ==
  /\ InTrain
  /\ job.storage = None
  /\ job.path = "./out"
  /\ frame.pc = "returned"
  /\ NumCalls(frame, "Trainer.persist") = 1
  /\ outcome.persisted_path = "./out/nlu_1"

\* ---------------------------------------------------------------- C10
\* C10: given a configuration object, train never calls config.load and the
\* trainer and the data loader get that object (its language); given a
\* reference string, config.load is called exactly once, with that reference,
\* and its result is what the trainer and the data loader get.
C10_ConfigPassthrough ==
  InTrain =>
    /\ (~IsStr(job.nlu_config) =>
          /\ NumCalls(frame, "config.load") = 0
          /\ (frame.pc # "raised" => frame.nlu_config = job.nlu_config))
    /\ (IsStr(job.nlu_config) =>
          /\ (frame.pc # "resolve" => NumCalls(frame, "config.load") = 1)
          /\ \A i \in CallsOf(frame, "config.load") :
               frame.calls[i].args = <<job.nlu_config>>
          /\ (NumCalls(frame, "Trainer") > 0 => frame.nlu_config = env.loaded))
    /\ \A i \in CallsOf(frame, "Trainer") :
         frame.calls[i].args = <<ResolvedConfig, job.component_builder>>
    /\ \A fn \in Loaders : \A i \in CallsOf(frame, fn) :
         frame.calls[i].args[2] = LanguageOf[ResolvedConfig]

C10_Witness ==
  /\ InTrain
  /\ job.nlu_config = "cfg_de"
  /\ frame.pc = "returned"
  /\ NumCalls(frame, "config.load") = 0
  /\ frame.calls[1].args[1] = "cfg_de"

\* ---------------------------------------------------------------- C11
\* position of a collaborator in the order of train's steps
StepRank(fn) ==
  CASE fn = "config.load" -> 1
    [] fn = "Trainer" -> 2
    [] fn = "get_persistor" -> 3
    [] fn \in Loaders -> 4
    [] fn = "Trainer.train" -> 5
    [] fn = "Trainer.persist" -> 6
HasCall(f, fn) == NumCalls(f, fn) > 0

\* C11: the collaborator calls of a run are made in the order config.load,
\* Trainer, get_persistor, data loader, Trainer.train, Trainer.persist; a step
\* is made only after the steps before it succeeded (a reference is loaded
\* before the trainer is built, the trainer is built before anything later,
\* a storage identifier is resolved before data is loaded, Trainer.train gets
\* training data a loader returned, Trainer.persist follows Trainer.train);
\* and once a collaborator has failed the run has ended with no later call.
C11_StrictOrder ==
  (entry \in {"train", "do_train_in_worker"}) =>
    /\ \A i, j \in 1..Len(frame.calls) :
         i < j => StepRank(frame.calls[i].fn) < StepRank(frame.calls[j].fn)
    /\ (FailureHappened =>
          frame.pc = "raised" /\ LastCall(frame).fn = env.failAt)
    /\ (HasCall(frame, "Trainer") /\ IsStr(job.nlu_config) =>
          HasCall(frame, "config.load"))
    /\ \A i \in 1..Len(frame.calls) :
         StepRank(frame.calls[i].fn) >= 3 =>
           HasCall(frame, "Trainer") /\ frame.trainer = "trainer_obj"
    /\ \A i \in 1..Len(frame.calls) :
         (StepRank(frame.calls[i].fn) >= 4 /\ frame.storage # None) =>
           HasCall(frame, "get_persistor") /\ frame.persistor = HandleOf[frame.storage]
    /\ \A i \in CallsOf(frame, "Trainer.train") :
         /\ \E fn \in Loaders : HasCall(frame, fn)
         /\ frame.calls[i].args[1] \in {"td_local", "td_remote"}
    /\ (HasCall(frame, "Trainer.persist") =>
          HasCall(frame, "Trainer.train") /\ frame.interpreter = "interpreter_obj")
    /\ (frame.pc = "returned" =>
          HasCall(frame, "Trainer") /\ HasCall(frame, "Trainer.train"))

\* a run that makes all six calls
C11_Witness ==
  /\ InTrain
  /\ frame.pc = "returned"
  /\ Len(frame.calls) = 6
  /\ frame.calls[1].fn = "config.load"
  /\ frame.calls[6].fn = "Trainer.persist"

\* ---------------------------------------------------------------- C12
\* the persistor create_persistor produces for the run's storage identifier
RunPersistor == IF job.storage = None THEN None ELSE HandleOf[job.storage]
\* Trainer.train succeeded and the run is past lines 91-94
PastPersist(f) ==
  \/ f.pc \in {"return", "returned"}
  \/ f.pc = "raised" /\ env.failAt = "Trainer.persist"

\* C12 (as stated): in a run of train with an output path other than None
\* whose Trainer.train succeeded, Trainer.persist is called exactly once with
\* (path, persistor, fixed_model_name) and the returned persisted_path is what
\* Trainer.persist returned.
C12_PersistForAnyPath ==
  (InTrain /\ job.path # None /\ PastPersist(frame)) =>
    /\ NumCalls(frame, "Trainer.persist") = 1
    /\ \A i \in CallsOf(frame, "Trainer.persist") :
         frame.calls[i].args = <<job.path, RunPersistor, job.fixed_model_name>>
    /\ (frame.pc = "returned" => outcome.persisted_path = env.persisted)

\* C12 (amended): the same for every run whose output path is a non-empty
\* string.
C12_PersistForNonEmptyPath ==
  (InTrain /\ Truthy(job.path) /\ PastPersist(frame)) =>
    /\ NumCalls(frame, "Trainer.persist") = 1
    /\ \A i \in CallsOf(frame, "Trainer.persist") :
         frame.calls[i].args = <<job.path, RunPersistor, job.fixed_model_name>>
    /\ (frame.pc = "returned" =>
          outcome.kind = "return" /\ outcome.persisted_path = env.persisted)

C12_Witness ==
  /\ InTrain
  /\ job.path = "./out"
  /\ job.storage = "aws"
  /\ job.fixed_model_name = "nlu_fixed"
  /\ frame.pc = "returned"
  /\ outcome.persisted_path = "./out/nlu_1"
  /\ LastCall(frame).args = <<"./out", "AWSPersistor", "nlu_fixed">>

\* ---------------------------------------------------------------- C13
\* how far a run has got
PcRank(pc) ==
  CASE pc = "idle" -> 0
    [] pc = "resolve" -> 1
    [] pc = "trainer" -> 2
    [] pc = "persistor" -> 3
    [] pc = "data" -> 4
    [] pc = "train" -> 5
    [] pc = "persist" -> 6
    [] pc = "return" -> 7
    [] pc \in {"returned", "raised"} -> 8

C13_AtMostOnce ==
  /\ \A fn \in Collaborators : NumCalls(frame, fn) <= 1
  /\ Len(log) <= 1
  /\ (InWorker /\ Done => Terminal(frame))

C13_NoRevisit ==
  /\ (frame' # frame => PcRank(frame'.pc) > PcRank(frame.pc))
  /\ (entry # None => entry' = entry /\ job' = job /\ env' = env)
  /\ (Terminal(frame) => frame' = frame)
  /\ (Done => outcome' = outcome /\ log' = log)

\* C13: in one invocation every collaborator is called at most once, train is
\* entered once and never re-entered, no position of the run is revisited,
\* also after a failure, and once the invocation has produced its result or
\* its TrainingException nothing more happens (one translation, one log record).
C13_OneShot == [](C13_AtMostOnce) /\ [][C13_NoRevisit]_vars

C13_Witness ==
  /\ InWorker
  /\ outcome.kind = "raise_te"
  /\ Len(log) = 1
  /\ env.failAt = "load_data"
  /\ Len(frame.calls) >= 2

\* ---------------------------------------------------------------- C14
\* the states of the run's state machine
IsRun == entry \in {"train", "do_train_in_worker"}
StIdle(f) == f.pc = "resolve"
StConfigResolved(f) == f.pc \in {"trainer", "persistor", "data"}
StDataAcquired(f) == f.pc = "train"
StTrained(f) == f.pc = "persist"
StPersisted(f) == f.pc = "return" /\ HasCall(f, "Trainer.persist")
StNoPersist(f) == f.pc = "return" /\ ~HasCall(f, "Trainer.persist")
\* some behaviour of the collaborators not called yet takes the run from f to Failed
CanFail(f) ==
  \E c \in Collaborators :
    RunFrom(f, [env EXCEPT !.failAt = c,
                           !.exc = [type |-> "ValueError", args |-> <<>>]]).pc = "raised"

\* C14 (as stated, the part about Failed): from every non-terminal state of a
\* run, Idle, ConfigResolved, DataAcquired, Trained and Persisted, the run can
\* reach Failed.
C14_FailedFromEveryState ==
  (IsRun /\ ~Terminal(frame)) => CanFail(frame)

C14_Safety ==
  IsRun =>
    /\ (outcome.kind = "return" => frame.pc = "returned")
    /\ (outcome.kind \in {"raise", "raise_te"} => frame.pc = "raised")
    /\ ((StIdle(frame) \/ StConfigResolved(frame) \/ StDataAcquired(frame)) =>
          CanFail(frame))
    /\ (StTrained(frame) => (CanFail(frame) <=> Truthy(frame.path)))
    /\ ((StPersisted(frame) \/ StNoPersist(frame)) => ~CanFail(frame))

\* C14 (amended): every run that was started ends, in Done (result returned)
\* or in Failed (error raised) and never both; nothing is called after the end;
\* Failed can be reached from Idle, ConfigResolved and DataAcquired, and from
\* Trained exactly when the output path is non-empty; once Trainer.persist has
\* returned (Persisted), or was skipped, the run can only reach Done.
C14_Terminates ==
  /\ (IsRun ~> (Done /\ Terminal(frame)))
  /\ [](C14_Safety)
  /\ [][(Terminal(frame) \/ Done) => frame' = frame]_vars

C14_Witness ==
  /\ InWorker
  /\ Done
  /\ frame.pc = "raised"
  /\ env.failAt = "Trainer.persist"
  /\ HasCall(frame, "Trainer.persist")

\* ---------------------------------------------------------------- C15
\* C15: train never logs; do_train_in_worker has logged nothing while train
\* runs or when it returns, and when it has failed the log holds exactly one
\* record, an error record naming the data given to the invocation.
C15_LogOnlyAtTranslation ==
  /\ (InTrain => log = <<>>)
  /\ ((InWorker /\ ~Done) => log = <<>>)
  /\ ((InWorker /\ outcome.kind = "return") => log = <<>>)
  /\ ((InWorker /\ Done /\ frame.pc = "raised") =>
        /\ Len(log) = 1
        /\ log[1].level = "ERROR"
        /\ log[1].data = job.data
        /\ outcome.kind \in {"raise", "raise_te"})

C15_Witness ==
  /\ InWorker
  /\ outcome.kind = "raise_te"
  /\ job.data = "./other.md"
  /\ Len(log) = 1
  /\ log[1].data = "./other.md"

\* ---------------------------------------------------------------- C16
\* a TrainingException object exists: raised by the wrapper or constructed directly
TEExists == outcome.kind \in {"raise_te", "te_object"}

\* C16: every TrainingException has a message that is set and non-empty, and
\* __str__ returns it.
C16_MessageAlwaysDefined ==
  TEExists =>
    /\ outcome.te.has_message
    /\ outcome.te.message # ""
    /\ TrainingException_str(outcome.te).ok
    /\ TrainingException_str(outcome.te).value = outcome.te.message

\* ---------------------------------------------------------------- C17
\* worker w's run executed alone
Alone(w) == train(WorkerCall(wjob[w]), wenv[w])
AloneOutcome(w) ==
  IF Alone(w).pc = "returned"
  THEN [NoOutcome EXCEPT !.kind = "return", !.persisted_path = Alone(w).persisted_path]
  ELSE WorkerExceptOutcome(wjob[w].path, Alone(w).raised)
IsPrefix(s, t) == Len(s) <= Len(t) /\ \A i \in 1..Len(s) : s[i] = t[i]
\* the worker whose Trainer.persist wrote to key k last, 0 when none did
LastWriter(k) ==
  LET idx == {i \in 1..Len(persists) : persists[i].key = k}
  IN IF idx = {} THEN 0
     ELSE persists[CHOOSE i \in idx : \A j \in idx : j <= i].w
CStarted(w) == wframe[w].pc # "idle"
CDone(w) == wout[w].kind # "none"

C17_SameAsAlone ==
  \A w \in Workers :
    /\ (CStarted(w) => IsPrefix(wframe[w].calls, Alone(w).calls))
    /\ (Terminal(wframe[w]) => wframe[w] = Alone(w))
    /\ (CDone(w) => wout[w] = AloneOutcome(w))
    /\ ((CStarted(w) /\ ~CDone(w)) => ENABLED CRun(w))

C17_LastWriterWins == \A k \in ArtifactKeys : artifact[k] = LastWriter(k)

\* C17: under every interleaving each worker's run makes the calls and gets
\* the result it gets when executed alone, a started worker can always take
\* its next step and reaches its end whatever the others do, and the model
\* at a path and name is the one written by the Trainer.persist call that
\* executed last.
C17_Independent ==
  /\ [](C17_SameAsAlone)
  /\ [](C17_LastWriterWins)
  /\ \A w \in Workers : (CStarted(w) ~> CDone(w))

\* two runs to the same path and name both return; worker 2 persisted last
C17_Witness ==
  /\ wjob[1].path = "./out"
  /\ wjob[2].path = "./out"
  /\ wout[1].kind = "return"
  /\ wout[2].kind = "return"
  /\ Len(persists) >= 2
  /\ persists[1].w = 1
  /\ persists[2].w = 2
  /\ artifact[<<"./out", "nlu_fixed">>] = 2

\* ---------------------------------------------------------------- C18
\* the run holds a persistor handle
HandleConstructed(f) == f.persistor \notin {Unbound, None}
TrainerConstructed(f) == f.trainer = "trainer_obj"
\* the run has passed line 82 or ended
AfterStep3(f) == PcRank(f.pc) >= 4

C18_GetPersistorWhateverThePath ==
  /\ ((job.storage # None /\ TrainerConstructed(frame) /\ AfterStep3(frame)) =>
        /\ NumCalls(frame, "get_persistor") = 1
        /\ frame.calls[CHOOSE i \in CallsOf(frame, "get_persistor") : TRUE].args
             = <<job.storage>>)
  /\ ((job.storage = None \/ ~TrainerConstructed(frame)) =>
        ~HasCall(frame, "get_persistor"))
  /\ ((env.failAt = "get_persistor" /\ HasCall(frame, "get_persistor")) =>
        /\ frame.pc = "raised"
        /\ \A fn \in Loaders \cup {"Trainer.train", "Trainer.persist"} :
             ~HasCall(frame, fn))

\* C18 (as stated): get_persistor is called whenever a storage identifier was
\* supplied and the trainer was constructed, whatever the output path, its
\* failure ends the run before data acquisition, and a finished run holds a
\* persistor handle if and only if a storage identifier was supplied and the
\* trainer was constructed.
C18_HandleIffStorage ==
  IsRun =>
    /\ C18_GetPersistorWhateverThePath
    /\ (Terminal(frame) =>
          (HandleConstructed(frame) <=>
             (job.storage # None /\ TrainerConstructed(frame))))

\* C18 (amended): the same, but a finished run holds a persistor handle if
\* and only if a storage identifier was supplied, the trainer was constructed
\* and get_persistor did not fail.
C18_HandleIffResolved ==
  IsRun =>
    /\ C18_GetPersistorWhateverThePath
    /\ (Terminal(frame) =>
          (HandleConstructed(frame) <=>
             (/\ job.storage # None
              /\ TrainerConstructed(frame)
              /\ env.failAt # "get_persistor")))

\* no output path, a storage identifier that cannot be resolved
C18_Witness ==
  /\ InTrain
  /\ job.path = None
  /\ job.storage = "aws"
  /\ env.failAt = "get_persistor"
  /\ frame.pc = "raised"
  /\ LastCall(frame).fn = "get_persistor"
  /\ outcome.kind = "raise"

====
